---------------------------- MODULE Spec2Model ----------------------------
(***************************************************************************)
(* Model of the AI SQL chatbot.                                            *)
(*                                                                         *)
(*  - backend/main.py: query_endpoint, the request orchestrator.  Every    *)
(*    await of the coroutine is one step of the state machine.             *)
(*  - backend/prompts.py: the prompt builders.                             *)
(*  - backend/llm.py and backend/db.py (query_to_sql, answer_formulation,  *)
(*    execute_sql_query, database_schema) are modelled from their          *)
(*    contracts in spec.md, sections 4.1 and 4.3 to 4.5.                   *)
(*  - frontend/app.py: the Streamlit script, its session state and its     *)
(*    reruns.                                                              *)
(***************************************************************************)
EXTENDS Naturals, Sequences, FiniteSets

VARIABLES
    \* ---- backend: one POST /query request in flight --------------------
    pc,            \* position of query_endpoint
    request,       \* QueryRequest: [query, language]
    bound,         \* the local names of query_endpoint that are assigned
    schema,        \* local schema
    sql_query,     \* local sql_query
    llm_error,     \* local llm_error
    db_result,     \* local db_result
    answer,        \* local answer
    response,      \* the dict query_endpoint returned (read when pc = "done")
    fault,         \* the exception that left query_endpoint, if any
    calls,         \* the external calls of this request, in order
    exec_arg,      \* the argument execute_sql_query was called with
    exec_ret,      \* the rows execute_sql_query returned
    ans_args,      \* the arguments answer_formulation was called with
    ans_ret,       \* the text answer_formulation returned
    gen_ret,       \* the pair query_to_sql returned
    llm_raw,       \* what the LLM answered to the conversion prompt
    failed,        \* the step of this request that failed, or "none"
    stubFixed,     \* TRUE when the LLM is a stub that is a function of its prompt
    stub,          \* that function
    sqlLog,        \* per request value, the sql outputs returned for it so far
    \* ---- frontend: the Streamlit session ------------------------------
    uiPc,                       \* position of the script run
    query_in_progress,          \* st.session_state.query_in_progress
    schema_fetch_in_progress,   \* st.session_state.schema_fetch_in_progress
    last_question,              \* st.session_state.last_question
    user_query,                 \* the text area's content
    ui_error,                   \* st.session_state.error
    query_count,                \* st.session_state.query_count
    clicked,                    \* the button whose click this run delivers
    pending,                    \* a click made while the script blocks on HTTP
    rendered,                   \* per button: enabled on the page the user sees
    lastReset                   \* the flag the last finished HTTP handler reset

backendVars == <<pc, request, bound, schema, sql_query, llm_error, db_result,
                 answer, response, fault, calls, exec_arg, exec_ret, ans_args,
                 ans_ret, gen_ret, llm_raw, failed, stubFixed, stub, sqlLog>>

uiVars == <<uiPc, query_in_progress, schema_fetch_in_progress, last_question,
            user_query, ui_error, query_count, clicked, pending, rendered,
            lastReset>>

vars == <<backendVars, uiVars>>

-----------------------------------------------------------------------------
(* Values *)

\* SQL text is a sequence of tokens; "" is the empty sequence.
EmptyStr == <<>>

SqlA == <<"SELECT", "x">>
SqlB == <<" ", "select", "y", ";">>
SqlDelete == <<"DELETE", "x">>
SqlChained == <<"SELECT", "x", ";", "DROP", "x">>

Queries == {"Show me all customers from Germany", "Delete all orders"}
Languages == {"en", "de"}
Requests == [query : Queries, language : Languages]

SchemaDescriptor == <<"customers", <<"country", "text">>>>

RowSets == {<<>>, <<"r1", "r2">>, <<"r2", "r1">>}
Answers == {"", "summary"}
Messages == {"", "boom"}
ModelError == "Only read-only SELECT queries are allowed."

NoFault == "none"
NoResponse == [sql |-> EmptyStr, db_result |-> <<>>, answer |-> "", error |-> ""]
NoPair == [sql |-> EmptyStr, error |-> ""]
NoRaw == [kind |-> "none", sql_null |-> TRUE, sql |-> EmptyStr, error |-> ""]
NoArgs == [query |-> "", rows |-> <<>>, language |-> ""]

-----------------------------------------------------------------------------
(* backend/prompts.py *)

conversion_to_sql_prompt(query, sch, language) ==
    <<"You are an expert SQL assistant. The database schema is:", sch,
      "Generate a valid SQL SELECT statement for the question.",
      "User question", language, query>>

answer_formulation_prompt(query, sql_result, language) ==
    <<"You are a multilingual assistant.", sql_result, query, language>>

Prompts ==
    {conversion_to_sql_prompt(r.query, SchemaDescriptor, r.language) : r \in Requests}

-----------------------------------------------------------------------------
(* The SQL generation step (spec.md 4.3) *)

Upper(t) == IF t = "select" THEN "SELECT" ELSE t

RECURSIVE LStrip(_)
LStrip(s) == IF s # <<>> /\ Head(s) = " " THEN LStrip(Tail(s)) ELSE s

RECURSIVE RStrip(_)
RStrip(s) ==
    IF s # <<>> /\ s[Len(s)] = " " THEN RStrip(SubSeq(s, 1, Len(s) - 1)) ELSE s

StartsWithSelect(s) ==
    LET t == LStrip(s) IN t # <<>> /\ Upper(Head(t)) = "SELECT"

ModificationKeywords == {"INSERT", "UPDATE", "DELETE", "DROP", "ALTER", "TRUNCATE"}

HasModificationKeyword(s) ==
    \E i \in 1..Len(s) : Upper(s[i]) \in ModificationKeywords

\* a semicolon followed by something that is not whitespace
HasSecondStatement(s) ==
    LET t == RStrip(s)
    IN  \E i \in 1..Len(t) : t[i] = ";" /\ i < Len(t)

IsReadOnlySelect(s) ==
    /\ StartsWithSelect(s)
    /\ ~HasModificationKeyword(s)
    /\ ~HasSecondStatement(s)

\* What the LLM can do with the conversion prompt.
LlmCallFailures == {[kind |-> "call_failed", sql_null |-> TRUE, sql |-> EmptyStr, error |-> m] : m \in Messages}

LlmJson(sqlNull, sql, err) ==
    [kind |-> "json", sql_null |-> sqlNull, sql |-> sql, error |-> err]

LlmOutcomes ==
    LlmCallFailures \cup
    { LlmJson(TRUE, EmptyStr, ModelError),
      LlmJson(TRUE, EmptyStr, ""),
      LlmJson(FALSE, SqlA, ""),
      LlmJson(FALSE, SqlB, ""),
      LlmJson(FALSE, SqlDelete, ""),
      LlmJson(FALSE, SqlChained, "") }

StubOutcomes ==
    { LlmJson(FALSE, SqlA, ""),
      LlmJson(FALSE, SqlB, ""),
      [kind |-> "call_failed", sql_null |-> TRUE, sql |-> EmptyStr, error |-> "boom"] }

\* The result of query_to_sql: it raises, or returns the pair (sql, error).
query_to_sql(raw) ==
    IF raw.kind = "call_failed"
    THEN [raised |-> TRUE, msg |-> raw.error, sql |-> EmptyStr, error |-> ""]
    ELSE IF raw.error # ""
    THEN [raised |-> FALSE, msg |-> "", sql |-> EmptyStr, error |-> raw.error]
    ELSE IF raw.sql_null \/ raw.sql = EmptyStr
    THEN [raised |-> FALSE, msg |-> "", sql |-> EmptyStr, error |-> "EmptyGeneration"]
    ELSE IF ~IsReadOnlySelect(raw.sql)
    THEN [raised |-> FALSE, msg |-> "", sql |-> EmptyStr, error |-> "UnsafeQuery"]
    ELSE [raised |-> FALSE, msg |-> "", sql |-> raw.sql, error |-> ""]

\* The LLM's answers to a prompt: anything, or the stub's one answer.
LlmAnswers(prompt) == IF stubFixed THEN {stub[prompt]} ELSE LlmOutcomes

-----------------------------------------------------------------------------
(* backend/main.py: query_endpoint *)

\* Python truthiness of a str
Truthy(s) == s # ""

\* A variant of LlmErrorBranch that never takes the early return.
LlmErrorBranch_Never(err) == FALSE

\* line 52: if llm_error:
LlmErrorBranch(err) == Truthy(err)

\* A variant of LlmErrorResponse that reports a generic text.
LlmErrorResponse_Generic(err) ==
    [error |-> "SQL generation failed", sql |-> EmptyStr, db_result |-> <<>>, answer |-> ""]

\* line 54
LlmErrorResponse(err) ==
    [error |-> err, sql |-> EmptyStr, db_result |-> <<>>, answer |-> ""]

\* line 64
SuccessResponse(sql, rows, ans) ==
    [sql |-> sql, db_result |-> rows, answer |-> ans, error |-> ""]

\* A variant of ExceptResponse that returns the rows fetched so far.
ExceptResponse_KeepsRows(msg) ==
    [error |-> msg, sql |-> sql_query, db_result |-> db_result, answer |-> ""]

\* line 67
ExceptResponse(msg) ==
    [error |-> msg, sql |-> sql_query, db_result |-> <<>>, answer |-> ""]

\* line 58: the argument of execute_sql_query
ExecuteArgument == sql_query

\* A variant of AnswerArguments that leaves the language at its default.
AnswerArguments_DefaultLanguage ==
    [query |-> request.query, rows |-> db_result, language |-> "en"]

\* line 62: the arguments of answer_formulation
AnswerArguments ==
    [query |-> request.query, rows |-> db_result, language |-> request.language]

\* A variant of EntryLocals that keeps the locals of the request before.
EntryLocals_Carried == [bound |-> bound, sql_query |-> sql_query]

\* The locals of a fresh call of query_endpoint: none is assigned.
EntryLocals == [bound |-> {}, sql_query |-> EmptyStr]

\* The sql outputs recorded for a request value when the stub is fixed: the first
\* one and the latest ones, MaxLog at most.
MaxLog == 2

Record(log, r, sql) ==
    IF ~stubFixed THEN log
    ELSE IF Len(log[r]) < MaxLog
    THEN [log EXCEPT ![r] = Append(@, sql)]
    ELSE [log EXCEPT ![r] = Append(SubSeq(@, 1, MaxLog - 1), sql)]

\* A variant of ExceptHandler that swallows the exception and tries the step again.
ExceptHandler_Retry(step, msg) ==
    /\ pc' = pc
    /\ UNCHANGED <<failed, response, fault, sqlLog>>

\* lines 65-67: except Exception as e: return {..., "sql": sql_query, ...}
\* Reading sql_query before its assignment raises UnboundLocalError in the handler.
ExceptHandler(step, msg) ==
    /\ failed' = step
    /\ IF "sql_query" \in bound
       THEN /\ response' = ExceptResponse(msg)
            /\ pc' = "done"
            /\ fault' = NoFault
            /\ sqlLog' = Record(sqlLog, request, ExceptResponse(msg).sql)
       ELSE /\ response' = NoResponse
            /\ pc' = "crashed"
            /\ fault' = "UnboundLocalError"
            /\ sqlLog' = sqlLog

\* lines 31-45: a request arrives
Receive(r) ==
    /\ pc \in {"idle", "done", "crashed"}
    /\ request' = r
    /\ bound' = EntryLocals.bound
    /\ sql_query' = EntryLocals.sql_query
    /\ schema' = <<>>
    /\ llm_error' = ""
    /\ db_result' = <<>>
    /\ answer' = ""
    /\ response' = NoResponse
    /\ fault' = NoFault
    /\ calls' = <<>>
    /\ exec_arg' = EmptyStr
    /\ exec_ret' = <<>>
    /\ ans_args' = NoArgs
    /\ ans_ret' = ""
    /\ gen_ret' = NoPair
    /\ llm_raw' = NoRaw
    /\ failed' = "none"
    /\ pc' = "start"
    /\ UNCHANGED <<stubFixed, stub, sqlLog, uiVars>>

\* line 48: schema = await database_schema()
FetchSchema(ok, msg) ==
    /\ pc = "start"
    /\ calls' = Append(calls, "database_schema")
    /\ IF ok
       THEN /\ schema' = SchemaDescriptor
            /\ bound' = bound \cup {"schema"}
            /\ pc' = "schema_fetched"
            /\ UNCHANGED <<response, fault, failed, sqlLog>>
       ELSE /\ ExceptHandler("database_schema", msg)
            /\ UNCHANGED <<schema, bound>>
    /\ UNCHANGED <<request, sql_query, llm_error, db_result, answer, exec_arg,
                   exec_ret, ans_args, ans_ret, gen_ret, llm_raw, stubFixed, stub,
                   uiVars>>

\* lines 51-55: sql_query, llm_error = await query_to_sql(user_query, schema, language)
GenerateSql(raw) ==
    /\ pc = "schema_fetched"
    /\ raw \in LlmAnswers(conversion_to_sql_prompt(request.query, schema, request.language))
    /\ calls' = Append(calls, "query_to_sql")
    /\ llm_raw' = raw
    /\ LET r == query_to_sql(raw)
       IN  IF r.raised
           THEN /\ ExceptHandler("query_to_sql", r.msg)
                /\ UNCHANGED <<bound, sql_query, llm_error, gen_ret>>
           ELSE /\ sql_query' = r.sql
                /\ llm_error' = r.error
                /\ gen_ret' = [sql |-> r.sql, error |-> r.error]
                /\ bound' = bound \cup {"sql_query", "llm_error"}
                /\ fault' = NoFault
                /\ IF LlmErrorBranch(r.error)
                   THEN /\ response' = LlmErrorResponse(r.error)
                        /\ failed' = "query_to_sql"
                        /\ pc' = "done"
                        /\ sqlLog' = Record(sqlLog, request, LlmErrorResponse(r.error).sql)
                   ELSE /\ pc' = "sql_generated"
                        /\ UNCHANGED <<response, failed, sqlLog>>
    /\ UNCHANGED <<request, schema, db_result, answer, exec_arg, exec_ret,
                   ans_args, ans_ret, stubFixed, stub, uiVars>>

\* lines 58-59: db_result = await execute_sql_query(sql_query)
ExecuteQuery(ok, rows, msg) ==
    /\ pc = "sql_generated"
    /\ calls' = Append(calls, "execute_sql_query")
    /\ exec_arg' = ExecuteArgument
    /\ IF ok
       THEN /\ db_result' = rows
            /\ exec_ret' = rows
            /\ bound' = bound \cup {"db_result"}
            /\ pc' = "query_executed"
            /\ UNCHANGED <<response, fault, failed, sqlLog>>
       ELSE /\ ExceptHandler("execute_sql_query", msg)
            /\ UNCHANGED <<db_result, exec_ret, bound>>
    /\ UNCHANGED <<request, schema, sql_query, llm_error, answer, ans_args,
                   ans_ret, gen_ret, llm_raw, stubFixed, stub, uiVars>>

\* lines 62-64: answer = await answer_formulation(user_query, db_result, language)
FormulateAnswer(ok, ans, msg) ==
    /\ pc = "query_executed"
    /\ calls' = Append(calls, "answer_formulation")
    /\ ans_args' = AnswerArguments
    /\ IF ok
       THEN /\ answer' = ans
            /\ ans_ret' = ans
            /\ bound' = bound \cup {"answer"}
            /\ response' = SuccessResponse(sql_query, db_result, ans)
            /\ sqlLog' = Record(sqlLog, request, SuccessResponse(sql_query, db_result, ans).sql)
            /\ pc' = "done"
            /\ UNCHANGED <<fault, failed>>
       ELSE /\ ExceptHandler("answer_formulation", msg)
            /\ UNCHANGED <<answer, ans_ret, bound>>
    /\ UNCHANGED <<request, schema, sql_query, llm_error, db_result, exec_arg,
                   exec_ret, gen_ret, llm_raw, stubFixed, stub, uiVars>>


InitBackend ==
    /\ pc = "idle"
    /\ request = [query |-> "Show me all customers from Germany", language |-> "en"]
    /\ bound = {}
    /\ schema = <<>>
    /\ sql_query = EmptyStr
    /\ llm_error = ""
    /\ db_result = <<>>
    /\ answer = ""
    /\ response = NoResponse
    /\ fault = NoFault
    /\ calls = <<>>
    /\ exec_arg = EmptyStr
    /\ exec_ret = <<>>
    /\ ans_args = NoArgs
    /\ ans_ret = ""
    /\ gen_ret = NoPair
    /\ llm_raw = NoRaw
    /\ failed = "none"
    /\ sqlLog = [r \in Requests |-> <<>>]

Next ==
    \/ \E r \in Requests : Receive(r)
    \/ \E ok \in BOOLEAN, msg \in Messages : FetchSchema(ok, msg)
    \/ \E raw \in LlmOutcomes : GenerateSql(raw)
    \/ \E ok \in BOOLEAN, rows \in RowSets, msg \in Messages : ExecuteQuery(ok, rows, msg)
    \/ \E ok \in BOOLEAN, ans \in Answers, msg \in Messages : FormulateAnswer(ok, ans, msg)

-----------------------------------------------------------------------------
(* frontend/app.py: the Streamlit script *)

Buttons == {"refresh", "other", "sample", "schema", "execute", "clear"}

\* The line of the script that renders each widget.
Pos(b) ==
    CASE b = "refresh" -> 140
      [] b = "other"   -> 154
      [] b = "sample"  -> 175
      [] b = "schema"  -> 184
      [] b = "execute" -> 235
      [] b = "clear"   -> 281

\* lines 103-104
is_processing == query_in_progress \/ schema_fetch_in_progress

\* The disabled= argument of each widget (lines 140, 154, 175, 184, 235, 281).
Disabled(b) == IF b = "sample" THEN query_in_progress ELSE is_processing

\* The page after the script has run down to line `line`: the widgets above are
\* rendered anew, the ones below are those of the run before.
RenderedUpTo(line) ==
    [b \in Buttons |-> IF Pos(b) <= line THEN ~Disabled(b) ELSE rendered[b]]

LastLine == 378

\* str.strip() on the text area's content, a sequence of characters
Strip(s) == RStrip(LStrip(s))

SampleQuery == <<"S", "h", "o", "w">>
Texts == {<<>>, <<" ">>, SampleQuery}

TimeoutText == "Request timed out. Please try again."
ConnectionText == "Cannot connect to the backend. Please ensure the server is running."
ApiErrorText == "API error: 500 Server Error"
BackendErrorText == "Only read-only SELECT queries are allowed."

\* What requests.post(..., timeout=30) followed by raise_for_status() and json() does.
HttpOutcomes == {"ok", "backend_error", "timeout", "connection_error", "exception"}

\* lines 264, 270-275: st.session_state.error after the call
ErrorAfter(outcome) ==
    CASE outcome = "ok"               -> ""
      [] outcome = "backend_error"    -> BackendErrorText
      [] outcome = "timeout"          -> TimeoutText
      [] outcome = "connection_error" -> ConnectionText
      [] outcome = "exception"        -> ApiErrorText

\* A variant of FlagAfterCall that resets the flag at the end of the try body only.
FlagAfterCall_OnlyOnSuccess(outcome) == outcome \notin {"ok", "backend_error"}

\* lines 276-277 and 198-199: the finally clause resets the flag on every outcome
FlagAfterCall(outcome) == FALSE

MaxQueryCount == 2

\* st.rerun(): the script starts again from the top; a click made on the page while
\* the script was blocked is delivered to that run.
Rerun ==
    /\ uiPc' = "run"
    /\ clicked' = pending
    /\ pending' = "none"

\* The user clicks a button that the page shows enabled, the script being idle.
UserClick(b) ==
    /\ uiPc = "idle"
    /\ rendered[b]
    /\ b = "execute" => query_count < MaxQueryCount
    /\ clicked' = b
    /\ uiPc' = "run"
    /\ UNCHANGED <<query_in_progress, schema_fetch_in_progress, last_question,
                   user_query, ui_error, query_count, pending, rendered, lastReset,
                   backendVars>>

\* The user clicks a button that the page shows enabled while the script is blocked
\* in an HTTP call; the click is delivered when the script reruns.
UserClickWhileBusy(b) ==
    /\ uiPc \in {"schema_http", "query_http"}
    /\ pending = "none"
    /\ rendered[b]
    /\ b = "execute" => query_count < MaxQueryCount
    /\ pending' = b
    /\ UNCHANGED <<uiPc, query_in_progress, schema_fetch_in_progress, last_question,
                   user_query, ui_error, query_count, clicked, rendered, lastReset,
                   backendVars>>

\* lines 222-228: the user edits the text area (enabled unless a query is in progress)
TypeQuery(text) ==
    /\ uiPc = "idle"
    /\ ~query_in_progress
    /\ text # user_query
    /\ user_query' = text
    /\ clicked' = "none"
    /\ uiPc' = "run"
    /\ UNCHANGED <<query_in_progress, schema_fetch_in_progress, last_question,
                   ui_error, query_count, pending, rendered, lastReset, backendVars>>

\* lines 140-142: the refresh button
RunRefresh ==
    /\ uiPc = "run"
    /\ clicked = "refresh"
    /\ rendered' = RenderedUpTo(Pos("refresh"))
    /\ Rerun
    /\ UNCHANGED <<query_in_progress, schema_fetch_in_progress, last_question,
                   user_query, ui_error, query_count, lastReset, backendVars>>

\* lines 174-177: a sample query button
RunSample ==
    /\ uiPc = "run"
    /\ clicked = "sample"
    /\ last_question' = SampleQuery
    /\ user_query' = SampleQuery
    /\ rendered' = RenderedUpTo(Pos("sample"))
    /\ Rerun
    /\ UNCHANGED <<query_in_progress, schema_fetch_in_progress, ui_error,
                   query_count, lastReset, backendVars>>

\* lines 183-186: the schema button
RunSchemaButton ==
    /\ uiPc = "run"
    /\ clicked = "schema"
    /\ schema_fetch_in_progress' = TRUE
    /\ rendered' = RenderedUpTo(Pos("schema"))
    /\ Rerun
    /\ UNCHANGED <<query_in_progress, last_question, user_query, ui_error,
                   query_count, lastReset, backendVars>>

\* The run has passed the widgets of the sidebar without a rerun.
PastSidebar == uiPc = "run" /\ clicked \notin {"refresh", "sample", "schema"}

\* lines 189-192: the script blocks in requests.get
SchemaFetchStart ==
    /\ PastSidebar
    /\ schema_fetch_in_progress
    /\ uiPc' = "schema_http"
    /\ rendered' = RenderedUpTo(Pos("schema"))
    /\ UNCHANGED <<query_in_progress, schema_fetch_in_progress, last_question,
                   user_query, ui_error, query_count, clicked, pending, lastReset,
                   backendVars>>

\* lines 192-200: the call ends, the finally clause resets the flag and reruns
SchemaFetchDone(outcome) ==
    /\ uiPc = "schema_http"
    /\ schema_fetch_in_progress' = FlagAfterCall(outcome)
    /\ lastReset' = "schema"
    /\ uiPc' = "run"
    /\ clicked' = pending
    /\ pending' = "none"
    /\ UNCHANGED <<query_in_progress, last_question, user_query, ui_error,
                   query_count, rendered, backendVars>>

\* lines 235-243: the Execute button
RunExecuteButton ==
    /\ PastSidebar
    /\ ~schema_fetch_in_progress
    /\ clicked = "execute"
    /\ IF Strip(user_query) = <<>>
       THEN \* line 237: a warning; the script goes on to line 246
            /\ clicked' = "none"
            /\ rendered' = RenderedUpTo(Pos("execute"))
            /\ UNCHANGED <<uiPc, pending, ui_error, last_question, query_count,
                           query_in_progress>>
       ELSE /\ ui_error' = ""
            /\ last_question' = user_query
            /\ query_count' = query_count + 1
            /\ query_in_progress' = TRUE
            /\ rendered' = RenderedUpTo(Pos("execute"))
            /\ Rerun
    /\ UNCHANGED <<schema_fetch_in_progress, user_query, lastReset, backendVars>>

\* lines 246-251: the script blocks in requests.post
QueryFetchStart ==
    /\ PastSidebar
    /\ ~schema_fetch_in_progress
    /\ clicked # "execute"
    /\ query_in_progress
    /\ uiPc' = "query_http"
    /\ rendered' = RenderedUpTo(Pos("execute"))
    /\ UNCHANGED <<query_in_progress, schema_fetch_in_progress, last_question,
                   user_query, ui_error, query_count, clicked, pending, lastReset,
                   backendVars>>

\* lines 251-278: the call ends, the finally clause resets the flag and reruns
QueryFetchDone(outcome) ==
    /\ uiPc = "query_http"
    /\ ui_error' = ErrorAfter(outcome)
    /\ query_in_progress' = FlagAfterCall(outcome)
    /\ lastReset' = "query"
    /\ uiPc' = "run"
    /\ clicked' = pending
    /\ pending' = "none"
    /\ UNCHANGED <<schema_fetch_in_progress, last_question, user_query,
                   query_count, rendered, backendVars>>

\* lines 281-287: the Clear button
RunClear ==
    /\ PastSidebar
    /\ ~is_processing
    /\ clicked = "clear"
    /\ last_question' = <<>>
    /\ user_query' = IF last_question = <<>> THEN user_query ELSE <<>>
    /\ ui_error' = ""
    /\ rendered' = RenderedUpTo(Pos("clear"))
    /\ Rerun
    /\ UNCHANGED <<query_in_progress, schema_fetch_in_progress, query_count,
                   lastReset, backendVars>>

\* lines 289-378: the script reaches its end and waits for the next event
RunEnd ==
    /\ PastSidebar
    /\ ~is_processing
    /\ clicked \in {"none", "other"}
    /\ uiPc' = "idle"
    /\ clicked' = "none"
    /\ rendered' = RenderedUpTo(LastLine)
    /\ UNCHANGED <<query_in_progress, schema_fetch_in_progress, last_question,
                   user_query, ui_error, query_count, pending, lastReset,
                   backendVars>>

InitUi ==
    /\ uiPc = "run"
    /\ query_in_progress = FALSE
    /\ schema_fetch_in_progress = FALSE
    /\ last_question = <<>>
    /\ user_query = <<>>
    /\ ui_error = ""
    /\ query_count = 0
    /\ clicked = "none"
    /\ pending = "none"
    /\ rendered = [b \in Buttons |-> FALSE]
    /\ lastReset = "none"

ScriptStep ==
    \/ RunRefresh
    \/ RunSample
    \/ RunSchemaButton
    \/ SchemaFetchStart
    \/ \E o \in {"ok", "exception"} : SchemaFetchDone(o)
    \/ RunExecuteButton
    \/ QueryFetchStart
    \/ \E o \in HttpOutcomes : QueryFetchDone(o)
    \/ RunClear
    \/ RunEnd

NextUi ==
    \/ \E b \in Buttons : UserClick(b)
    \/ \E b \in Buttons : UserClickWhileBusy(b)
    \/ \E t \in Texts : TypeQuery(t)
    \/ ScriptStep

-----------------------------------------------------------------------------
(* Specifications *)

\* The backend with an LLM that may answer anything.
Init == InitBackend /\ InitUi /\ stubFixed = FALSE /\ stub = [p \in Prompts |-> LlmJson(FALSE, SqlA, "")]

Spec == Init /\ [][Next]_vars

\* The backend with a model stub that is a function of its prompt.
InitStub == InitBackend /\ InitUi /\ stubFixed = TRUE /\ stub \in [Prompts -> StubOutcomes]

SpecStub == InitStub /\ [][Next]_vars

\* The frontend.  The script runs to its end or to its next rerun, and an HTTP call
\* ends (with some outcome); the user is free to click or not.
SpecUi == Init /\ [][NextUi]_vars /\ WF_vars(ScriptStep)

-----------------------------------------------------------------------------
(* Properties *)

Steps == <<"database_schema", "query_to_sql", "execute_sql_query", "answer_formulation">>

Called(step) == \E i \in 1..Len(calls) : calls[i] = step

\* C1: every failure of a step is caught inside query_endpoint and ends in a
\* returned response; no failure, the schema fetch's included, leaves
\* query_endpoint as an unhandled exception.
C1_EveryFailureIsReturned ==
    /\ fault = NoFault
    /\ failed # "none" => pc = "done"

\* C2: in every response returned, error is the empty string if and only if all
\* four steps completed without failure.
C2_ErrorEmptyIffAllStepsSucceeded ==
    pc = "done" => ((response.error = "") <=> (failed = "none" /\ calls = Steps))

\* C3: when SQL generation returns a non-empty error, the response carries exactly
\* that text with sql, db_result and answer empty, and neither the query executor
\* nor the answer formulation step is invoked.
C3_GenerationErrorIsReturnedAlone ==
    gen_ret.error # "" =>
        /\ pc = "done"
        /\ response = [error |-> gen_ret.error, sql |-> EmptyStr,
                       db_result |-> <<>>, answer |-> ""]
        /\ ~Called("execute_sql_query")
        /\ ~Called("answer_formulation")

C3_Witness ==
    /\ pc = "done"
    /\ llm_raw.error = ModelError
    /\ gen_ret.error = ModelError
    /\ response.error = ModelError

\* C4 as stated: in every response, a non-empty error implies that sql, db_result
\* and answer are all empty.
C4_ErrorImpliesAllEmpty ==
    (pc = "done" /\ response.error # "") =>
        /\ response.sql = EmptyStr
        /\ response.db_result = <<>>
        /\ response.answer = ""

\* C4 amended: in every response, a non-empty error implies that db_result and
\* answer are empty; sql is empty when SQL generation returned the error, and is the
\* SQL generated for this request when query execution or answer formulation failed.
C4_ErrorImpliesResultAndAnswerEmpty ==
    (pc = "done" /\ response.error # "") =>
        /\ response.db_result = <<>>
        /\ response.answer = ""
        /\ failed = "query_to_sql" => response.sql = EmptyStr
        /\ failed \in {"execute_sql_query", "answer_formulation"} =>
               response.sql = gen_ret.sql /\ response.sql # EmptyStr

C4_Witness ==
    /\ pc = "done"
    /\ response.error = "boom"
    /\ failed = "answer_formulation"
    /\ exec_ret = <<"r1", "r2">>
    /\ response.sql = SqlA

\* C5: whatever step fails, query_endpoint returns at once the partial result and
\* the error message; after a failure of query execution or answer formulation the
\* response's sql is the SQL generated for this request; no step follows the
\* failing one.
C5_ErroredReturnsPartialResult ==
    failed # "none" =>
        /\ pc = "done"
        /\ calls[Len(calls)] = failed
        /\ failed \in {"execute_sql_query", "answer_formulation"} =>
               response.sql = gen_ret.sql

\* C6: a generated SQL string that does not begin with SELECT (case-insensitive,
\* whitespace-trimmed) is rejected with UnsafeQuery, and execute_sql_query is never
\* invoked with such a string.
C6_NonSelectNeverExecuted ==
    /\ Called("execute_sql_query") => StartsWithSelect(exec_arg)
    /\ (llm_raw.kind = "json" /\ llm_raw.error = "" /\ ~llm_raw.sql_null
            /\ llm_raw.sql # EmptyStr /\ ~StartsWithSelect(llm_raw.sql)) =>
           /\ pc = "done"
           /\ response.error = "UnsafeQuery"
           /\ ~Called("execute_sql_query")

C6_Witness ==
    /\ pc = "done"
    /\ llm_raw.sql = SqlDelete
    /\ response.error = "UnsafeQuery"

\* C7: when all steps succeed, sql is the string SQL generation returned, db_result
\* is exactly the rows the executor returned for that string, answer is the output of
\* answer formulation called with the question, those rows and the request's
\* language, and error is empty.
C7_SuccessResponse ==
    (pc = "done" /\ failed = "none") =>
        /\ response.sql = gen_ret.sql
        /\ exec_arg = gen_ret.sql
        /\ response.db_result = exec_ret
        /\ ans_args = [query |-> request.query, rows |-> exec_ret,
                       language |-> request.language]
        /\ response.answer = ans_ret
        /\ response.error = ""

C7_Witness ==
    /\ pc = "done"
    /\ failed = "none"
    /\ request.language = "de"
    /\ gen_ret.sql = SqlB
    /\ response.db_result = <<"r2", "r1">>
    /\ response.answer = "summary"

\* C8: the external calls of a request are made in the order schema fetch, SQL
\* generation, query execution, answer formulation, each after the one before has
\* succeeded and each at most once; nothing is called after a failure.
C8_LinearSingleAttempt ==
    /\ Len(calls) <= Len(Steps)
    /\ \A i \in 1..Len(calls) : calls[i] = Steps[i]
    /\ failed # "none" => calls[Len(calls)] = failed
    /\ pc = "start" => calls = <<>>
    /\ pc = "schema_fetched" => calls = SubSeq(Steps, 1, 1)
    /\ pc = "sql_generated" => calls = SubSeq(Steps, 1, 2)
    /\ pc = "query_executed" => calls = SubSeq(Steps, 1, 3)

C8_Witness ==
    /\ pc = "done"
    /\ failed = "execute_sql_query"
    /\ calls = SubSeq(Steps, 1, 3)

\* C9: with a fixed schema and a model stub that is a function of its prompt, all
\* the responses to one request value carry the same sql, whatever requests are
\* handled in between.
C9_SameRequestSameSql ==
    stubFixed =>
        \A r \in Requests : \A i, j \in 1..Len(sqlLog[r]) : sqlLog[r][i] = sqlLog[r][j]

C9_Witness ==
    \E r, o \in Requests :
        /\ r # o
        /\ Len(sqlLog[r]) >= 2
        /\ Len(sqlLog[o]) >= 1
        /\ sqlLog[o][1] # sqlLog[r][1]
        /\ pc = "done"
        /\ request = r

=============================================================================
